---------------------------- MODULE Spec2Model ----------------------------
(***************************************************************************)
(* Model of milvus_rag.py: MilvusRAGManager, a document manager for one    *)
(* collection of a Milvus vector database.                                 *)
(*                                                                         *)
(* The database is shared state (exists, cdim, rows, nextPk).  Every       *)
(* manager is one Python process: its configuration, its two in-memory     *)
(* handles (collection, vector_db) and the position of the operation it is *)
(* running.  An operation is cut at its database calls: one action is one  *)
(* database call together with the local code around it.                   *)
(*                                                                         *)
(* External collaborators are modelled by their contract:                  *)
(*  - pymilvus Collection(name) raises SchemaNotReadyException when the    *)
(*    collection does not exist (no schema is passed by this program);     *)
(*  - query/delete on a collection that no longer exists raise;            *)
(*  - Milvus.from_documents creates the collection when absent, with the   *)
(*    dimensionality of the embeddings it is given, and the database       *)
(*    rejects vectors whose dimensionality differs from the collection's;  *)
(*  - the langchain Milvus handle built for a query does not create the    *)
(*    collection, and a search through it on an absent collection finds    *)
(*    nothing; similarity_search and as_retriever return at most k         *)
(*    entries, k = 4 when the caller gives none;                           *)
(*  - Collection.get_stats() answers with the row count;                   *)
(*  - argparse exits with status 2 on invalid arguments;                   *)
(*  - any database call may fail outright (action UpstreamFailure);        *)
(*  - a load of a file yields between 1 and MaxChunks chunks (documents    *)
(*    that split into no chunk at all are outside this model).             *)
(***************************************************************************)
EXTENDS Integers, Sequences, FiniteSets, TLC

\* ----------------------------------------------------------------- bounds
MaxChunks == 2      \* most chunks one load of a path produces
MaxPk     == 3      \* most primary keys the database hands out in a run
MaxEntries == 12    \* most entries of the collections queries are run on

\* ------------------------------------------------------------ environment
Procs == {"p1", "p2"}                 \* manager processes
SeqProcs == {"p1"}                    \* the processes of command-at-a-time use

\* The paths the operations are given, and what each is on disk.
FilePaths == {"a.pdf", "docs", "nope"}

\* os.path.isfile / os.path.isdir
PathKind(file_path) ==
    CASE file_path = "a.pdf"      -> "file"
      [] file_path = "./a.pdf"    -> "file"
      [] file_path = "docs/b.pdf" -> "file"
      [] file_path = "docs"       -> "dir"
      [] OTHER                    -> "none"

\* The file a path names: "./a.pdf" is another spelling of "a.pdf".
RealPath(file_path) == IF file_path = "./a.pdf" THEN "a.pdf" ELSE file_path

\* The files PyPDFDirectoryLoader finds under a directory.
DirFiles(file_path) == IF file_path = "docs" THEN <<"docs/b.pdf">> ELSE <<>>

FileTypes == {"pdf", "txt"}           \* config['file_type']
Dims      == {1, 2}                   \* embedding dimensionalities of the configurable models

Operations == {"insert", "update", "delete", "query", "drop", "load"}

VARIABLES
    exists,     \* utility.has_collection(collection_name)
    cdim,       \* the collection's vector dimensionality (0 while absent)
    rows,       \* the collection's entries: [pk, source, start_index, dim]
    nextPk,     \* next primary key the database assigns (auto id)
    mgr         \* per process: the manager's fields and its running operation

vars == <<exists, cdim, rows, nextPk, mgr>>

\* ---------------------------------------------------------------- helpers
RECURSIVE SortedPks(_)
\* The primary keys of a set of entries, as the list a query returns.
SortedPks(es) ==
    IF es = {} THEN <<>>
    ELSE LET lo == CHOOSE e \in es : \A o \in es : e.pk <= o.pk
         IN  <<lo.pk>> \o SortedPks(es \ {lo})

Range(s) == {s[k] : k \in 1..Len(s)}

\* Entries of rs whose source is src.
WithSource(rs, src) == {r \in rs : r.source = src}

\* Faulty variant: the expression matches every entry.
QueryBySourceAll(rs, file_path) == rs
\* Faulty variant: the expression matches every spelling of the path.
QueryBySourceAnySpelling(rs, file_path) ==
    {r \in rs : RealPath(r.source) = RealPath(file_path)}
\* Lines 185-188 and 152-155: expr "source == '<file_path>'", an exact string match.
QueryBySource(rs, file_path) == {r \in rs : r.source = file_path}

\* Faulty variant: the deletion call removes nothing.
DeleteByPkNothing(rs, pk) == rs
\* Faulty variant: the deletion call removes every entry that shares the
\* source of the entry with that primary key.
DeleteByPkWholeSource(rs, pk) ==
    {r \in rs : \A e \in rs : e.pk = pk => r.source # e.source}
\* Lines 163-164: expr "pk in [<pk>]" removes the entry with that primary key.
DeleteByPk(rs, pk) == {r \in rs : r.pk # pk}

\* ------------------------------------------------------- _load_documents
\* Lines 106-127: the error _load_documents raises for a path, or "none".
LoadError(file_type, file_path) ==
    IF PathKind(file_path) \in {"file", "dir"}
    THEN IF file_type = "pdf" THEN "none" ELSE "UnsupportedTypeError"
    ELSE "NotFoundError"

\* The sources of the chunks a load yields: the path itself for a file, the
\* files under it for a directory.
ChunkSources(file_path) ==
    IF PathKind(file_path) = "file" THEN {file_path} ELSE Range(DirFiles(file_path))

\* Lines 113-114, 121-122: the chunk lists split_documents can return:
\* n chunks, each tagged with its source and start_index.
LoadResults(file_path) ==
    { [k \in 1..n |-> [source |-> src, start_index |-> k]] :
        n \in 1..MaxChunks, src \in ChunkSources(file_path) }

\* ---------------------------------------------------- manager record
NoPre == [exists |-> FALSE, cdim |-> 0, rows |-> {}, nextPk |-> 1,
          collection |-> "None", vector_db |-> "None", memory |-> <<>>]
NoPrev == [op |-> "none", arg |-> "none", n |-> 0, before |-> 0]

\* __init__ (lines 25-32): configuration loaded, both handles None.  The
\* other fields describe the operation the process runs, none yet.
NewManager(ft, d) ==
    [ config     |-> [file_type |-> ft, dim |-> d],
      collection |-> "None",
      vector_db  |-> "None",
      pc         |-> "idle",
      op         |-> "none",
      arg        |-> "none",
      use_rag    |-> FALSE,
      res        |-> <<>>,       \* the lookup's result (primary keys)
      idx        |-> 1,          \* position of the delete loop in res
      result     |-> "none",     \* "ok" | "error" once the operation returned
      err        |-> "none",     \* the exception that ended it
      reported   |-> -1,         \* the count the operation printed, -1: none
      row_count  |-> -1,         \* the row count get_collection_stats printed, -1: none
      matches    |-> -1,         \* how many entries the query's search returned, -1: none
      memory     |-> <<>>,       \* the conversation history of the latest RAG call
      stale      |-> {},         \* handles held since before this manager's last drop
      stage      |-> "op",       \* main: "op" for the operation, "stats" after it
      exit       |-> -1,         \* the process's exit status, -1 while it has none
      error_printed |-> FALSE,   \* main printed an "Error: ..." line
      loaded     |-> 0,          \* len(documents) of this operation's load
      added      |-> {},         \* primary keys this operation inserted
      trace      |-> <<>>,       \* the steps this operation performed, in order
      pre        |-> NoPre,      \* the database and handles when it was invoked
      prev       |-> NoPrev ]    \* the operation that returned just before it

Init ==
    /\ exists = FALSE
    /\ cdim = 0
    /\ rows = {}
    /\ nextPk = 1
    /\ mgr = [p \in Procs |-> NewManager("pdf", 1)]

\* ------------------------------------------------------ bookkeeping
Running(p) == mgr[p].pc \notin {"idle", "done"}

InsertingOps == {"insert", "update", "load"}

\* Primary keys are not reused; an operation that inserts starts only while
\* the keys up to MaxPk suffice for the largest load, for it and for each
\* insert already running.
PkRoom(m) ==
    LET others == {p \in Procs \ {m} : Running(p) /\ mgr[p].op \in InsertingOps}
    IN  nextPk - 1 + MaxChunks * (1 + Cardinality(others)) <= MaxPk

Snapshot(r) == [exists |-> exists, cdim |-> cdim, rows |-> rows, nextPk |-> nextPk,
                collection |-> r.collection, vector_db |-> r.vector_db,
                memory |-> r.memory]

\* What a returned operation was and did, for the operation that follows it:
\* kept for the inserts, deletes and drops that returned without error.
Summary(r) ==
    IF r.result = "ok" /\ r.op \in {"insert", "delete", "drop"}
    THEN [ op     |-> r.op,
           arg    |-> r.arg,
           n      |-> IF r.op = "delete" THEN r.reported ELSE r.loaded,
           before |-> Cardinality(WithSource(r.pre.rows, r.arg)) ]
    ELSE NoPrev

Performed(r, step) == [r EXCEPT !.trace = Append(@, step)]
Raise(r, e) == [r EXCEPT !.pc = "done", !.result = "error", !.err = e]
Return(r) == [r EXCEPT !.pc = "done", !.result = "ok"]

Store == <<exists, cdim, rows, nextPk>>

\* ------------------------------------------------------------- main
\* Faulty variant: load_collection inserts without dropping first.
FirstPcLoadSkipsDrop(o) ==
    CASE o = "insert" -> "insert"
      [] o = "update" -> "chk_bind"
      [] o = "delete" -> "del_bind"
      [] o = "query"  -> "qry_bind"
      [] o = "drop"   -> "drop_has"
      [] o = "load"   -> "load_insert"
      [] o = "stats"  -> "st_bind"
      [] o = "ensure" -> "ens_has"
\* Lines 282-315: the first step of each operation of the dispatcher
\* (load_collection begins with _drop_collection, line 250), and of the
\* methods get_collection_stats and _create_collection_if_not_exists.
FirstPc(o) ==
    CASE o = "insert" -> "insert"
      [] o = "update" -> "chk_bind"
      [] o = "delete" -> "del_bind"
      [] o = "query"  -> "qry_bind"
      [] o = "drop"   -> "drop_has"
      [] o = "load"   -> "drop_has"
      [] o = "stats"  -> "st_bind"
      [] o = "ensure" -> "ens_has"

\* The argument an operation takes: --file-path, --query, or none (drop).
ArgsOf(o) ==
    CASE o \in {"insert", "update", "delete", "load"} -> FilePaths \cup {"docs/b.pdf"}
      [] o = "query" -> {"q"}
      [] o \in {"drop", "stats", "ensure"} -> {"none"}

\* Manager m begins operation o: the fields that describe the running
\* operation are reset, pre takes the snapshot and prev becomes before.
Begin(m, o, a, rag, before) ==
    /\ mgr' = [mgr EXCEPT ![m] =
                 [@ EXCEPT !.pc = FirstPc(o), !.op = o, !.arg = a, !.use_rag = rag,
                           !.res = <<>>, !.idx = 1, !.result = "none", !.err = "none",
                           !.reported = -1, !.loaded = 0, !.added = {}, !.trace = <<>>,
                           !.row_count = -1, !.matches = -1,
                           !.pre = Snapshot(mgr[m]),
                           !.prev = before]]
    /\ UNCHANGED Store

\* An operation is invoked on manager m; prev keeps what the operation before
\* it was and did.
Invoke(m, o, a, rag) ==
    /\ ~Running(m)
    /\ o \in InsertingOps => PkRoom(m)
    /\ Begin(m, o, a, rag, IF mgr[m].op = "none" THEN mgr[m].prev
                           ELSE Summary(mgr[m]))

\* Lines 280, 25-32: a new process constructs its manager from a configuration;
\* of the process before it only prev is kept.
Construct(m) ==
    /\ ~Running(m)
    /\ \E ft \in FileTypes, d \in Dims :
         mgr' = [mgr EXCEPT ![m] =
                   [NewManager(ft, d) EXCEPT
                       !.prev = IF mgr[m].op = "none" THEN mgr[m].prev
                                ELSE Summary(mgr[m])]]
    /\ UNCHANGED Store

\* ------------------------------------------------- insert_documents
\* Faulty variant: chunks of a source that already has entries are skipped.
NewEntriesDeduplicated(docs, d, first) ==
    { [pk |-> first + k - 1, source |-> docs[k].source,
       start_index |-> docs[k].start_index, dim |-> d] :
         k \in {j \in 1..Len(docs) : WithSource(rows, docs[j].source) = {}} }
\* The entries Milvus.from_documents inserts for docs: one per chunk, embedded
\* with dimensionality d, primary keys assigned by the database from first on.
NewEntries(docs, d, first) ==
    { [pk |-> first + k - 1, source |-> docs[k].source,
       start_index |-> docs[k].start_index, dim |-> d] : k \in 1..Len(docs) }

\* The database accepts an insert of vectors of dimensionality d: the
\* collection is absent (it is created with d) or has dimensionality d.
SchemaAccepts(d) == ~exists \/ cdim = d

\* Lines 133-142 (and 253-262): _load_documents, then Milvus.from_documents.
\* next is where the operation continues after a successful insert.
FromDocuments(m, next) ==
    LET r == Performed(mgr[m], "insert")
        e == LoadError(r.config.file_type, r.arg)
    IN  \/ /\ e # "none"
           /\ mgr' = [mgr EXCEPT ![m] = Raise(r, e)]
           /\ UNCHANGED Store
        \/ /\ e = "none"
           /\ \E docs \in LoadResults(r.arg) :
                LET l == [r EXCEPT !.loaded = Len(docs)]
                IN  \/ /\ ~SchemaAccepts(r.config.dim)
                       /\ mgr' = [mgr EXCEPT ![m] = Raise(l, "DimensionMismatch")]
                       /\ UNCHANGED Store
                    \/ /\ SchemaAccepts(r.config.dim)
                       /\ nextPk + Len(docs) - 1 <= MaxPk
                       /\ exists' = TRUE
                       /\ cdim' = IF exists THEN cdim ELSE r.config.dim
                       /\ rows' = rows \cup NewEntries(docs, r.config.dim, nextPk)
                       /\ nextPk' = nextPk + Len(docs)
                       /\ mgr' = [mgr EXCEPT ![m] =
                                    LET a == [l EXCEPT !.vector_db = "Milvus",
                                                       !.stale = @ \ {"vector_db"},
                                                       !.added = {nextPk + k - 1 : k \in 1..Len(docs)}]
                                    IN  IF next = "done" THEN Return(a)
                                        ELSE [a EXCEPT !.pc = next]]

\* Lines 129-144: insert_documents (called by main and by update_documents).
insert_documents(m) ==
    /\ mgr[m].pc = "insert"
    /\ FromDocuments(m, "done")

\* ------------------------------------------------- delete_documents
\* Lines 148-149, 182-183, 227-228: "if not self.collection: self.collection =
\* Collection(name)".  With a handle held no call is made.
BindCollection(m, next) ==
    LET r == mgr[m]
    IN  /\ UNCHANGED Store
        /\ IF r.collection # "None"
           THEN mgr' = [mgr EXCEPT ![m] = [r EXCEPT !.pc = next]]
           ELSE IF exists
                THEN mgr' = [mgr EXCEPT ![m] =
                               [Performed(r, "Collection") EXCEPT
                                   !.collection = "Collection", !.pc = next,
                                   !.stale = @ \ {"collection"}]]
                ELSE mgr' = [mgr EXCEPT ![m] =
                               Raise(Performed(r, "Collection"), "SchemaNotReady")]

\* Where an operation continues when delete_documents returns.
AfterDelete(r) == IF r.op = "update" THEN [r EXCEPT !.pc = "insert"] ELSE Return(r)

\* Lines 148-149.
delete_bind(m) ==
    /\ mgr[m].pc = "del_bind"
    /\ BindCollection(m, "del_query")

\* Lines 152-159: the lookup of delete_documents and its early return.
delete_query(m) ==
    LET r == Performed(mgr[m], "query")
    IN  /\ mgr[m].pc = "del_query"
        /\ UNCHANGED Store
        /\ IF ~exists
           THEN mgr' = [mgr EXCEPT ![m] = Raise(r, "CollectionNotFound")]
           ELSE LET res == SortedPks(QueryBySource(rows, r.arg))
                IN  IF res = <<>>
                    THEN mgr' = [mgr EXCEPT ![m] = AfterDelete([r EXCEPT !.reported = 0])]
                    ELSE mgr' = [mgr EXCEPT ![m] =
                                   [r EXCEPT !.res = res, !.idx = 1, !.pc = "del_loop"]]

\* Lines 162-167: one deletion call of the loop, and the report after the last.
delete_call(m) ==
    LET r == Performed(mgr[m], "delete")
    IN  /\ mgr[m].pc = "del_loop"
        /\ IF ~exists
           THEN /\ mgr' = [mgr EXCEPT ![m] = Raise(r, "CollectionNotFound")]
                /\ UNCHANGED Store
           ELSE /\ rows' = DeleteByPk(rows, r.res[r.idx])
                /\ UNCHANGED <<exists, cdim, nextPk>>
                /\ mgr' = [mgr EXCEPT ![m] =
                             IF r.idx < Len(r.res)
                             THEN [r EXCEPT !.idx = r.idx + 1]
                             ELSE AfterDelete([r EXCEPT !.idx = r.idx + 1,
                                                        !.reported = Len(r.res)])]

\* ------------------------------------------------- update_documents
\* Faulty variant: update inserts without deleting.
UpdateNeverDeletes(found) == "insert"
\* Lines 174-178: delete only when the lookup found entries, then insert.
UpdateAfterCheck(found) == IF found THEN "del_bind" ELSE "insert"

\* Lines 182-183 (_check_file_exists).
check_bind(m) ==
    /\ mgr[m].pc = "chk_bind"
    /\ BindCollection(m, "chk_query")

\* Lines 185-190 and 174: the provenance lookup and the branch on its result.
check_query(m) ==
    LET r == Performed(mgr[m], "lookup")
    IN  /\ mgr[m].pc = "chk_query"
        /\ UNCHANGED Store
        /\ IF ~exists
           THEN mgr' = [mgr EXCEPT ![m] = Raise(r, "CollectionNotFound")]
           ELSE mgr' = [mgr EXCEPT ![m] =
                          [r EXCEPT !.pc = UpdateAfterCheck(QueryBySource(rows, r.arg) # {})]]

\* ------------------------------------------------- _drop_collection
\* Where an operation continues when _drop_collection returns.
AfterDrop(r) == IF r.op = "load" THEN [r EXCEPT !.pc = "load_insert"] ELSE Return(r)

\* Faulty variants: the drop is never issued; the drop is issued unguarded.
ShouldDropNever(has) == FALSE
ShouldDropAlways(has) == TRUE
\* Line 239: the collection is dropped only when has_collection found it.
ShouldDrop(has) == has

\* Lines 239, 244-245: utility.has_collection and the branch on it.
drop_has(m) ==
    LET r == Performed(mgr[m], "has_collection")
    IN  /\ mgr[m].pc = "drop_has"
        /\ UNCHANGED Store
        /\ mgr' = [mgr EXCEPT ![m] =
                     IF ShouldDrop(exists) THEN [r EXCEPT !.pc = "drop_do"]
                     ELSE AfterDrop(r)]

\* Faulty variant: the handles are kept across the drop.
KeepHandles(r) == r
\* Lines 242-243: both in-memory handles are cleared after the drop.
ClearHandles(r) == [r EXCEPT !.collection = "None", !.vector_db = "None"]

\* The handles a manager still holds right after its drop were acquired
\* before it.
HeldAcrossDrop(r) ==
    [r EXCEPT !.stale = {h \in {"collection", "vector_db"} : r[h] # "None"}]

\* Lines 240-243: utility.drop_collection, then the handles are cleared.
drop_do(m) ==
    LET r == Performed(mgr[m], "drop_collection")
    IN  /\ mgr[m].pc = "drop_do"
        /\ exists' = FALSE
        /\ cdim' = 0
        /\ rows' = {}
        /\ UNCHANGED nextPk
        /\ mgr' = [mgr EXCEPT ![m] = AfterDrop(HeldAcrossDrop(ClearHandles(r)))]

\* ------------------------------------------------- load_collection
\* Lines 253-264: the insert of load_collection, after its drop.
load_insert(m) ==
    /\ mgr[m].pc = "load_insert"
    /\ FromDocuments(m, "load_bind")

\* Line 265: self.collection = Collection(name), unconditionally.
load_bind(m) ==
    LET r == Performed(mgr[m], "Collection")
    IN  /\ mgr[m].pc = "load_bind"
        /\ UNCHANGED Store
        /\ mgr' = [mgr EXCEPT ![m] =
                     IF exists THEN Return([r EXCEPT !.collection = "Collection",
                                                     !.stale = @ \ {"collection"}])
                     ELSE Raise(r, "SchemaNotReady")]

\* ------------------------------------------------- query_documents
\* Line 95: "limit" of _get_search_params, which insert_documents and
\* load_collection pass to Milvus.from_documents as search_params.
SearchLimit == 10

\* The k of similarity_search and of as_retriever when the caller gives none,
\* as at lines 214 and 206.
DefaultK == 4

\* Lines 195-199, 206, 214: how many entries a search returns at most.  The
\* handle query_documents builds is given no search_params, and neither
\* similarity_search nor as_retriever is given a k.
TopK == DefaultK

\* The number of entries a search over rs returns.
Matches(rs) == IF Cardinality(rs) < TopK THEN Cardinality(rs) ELSE TopK

\* Faulty variant: the history of the call before is carried on.
NewMemoryKept(old) == old
\* Line 203: every RAG call creates its ConversationBufferMemory, empty.
NewMemory(old) == <<>>

\* Lines 194-199: the vector store handle is built when none is held.
query_bind(m) ==
    LET r == mgr[m]
    IN  /\ r.pc = "qry_bind"
        /\ UNCHANGED Store
        /\ mgr' = [mgr EXCEPT ![m] =
                     LET next == IF r.use_rag THEN "qry_memory" ELSE "qry_search"
                     IN  IF r.vector_db # "None" THEN [r EXCEPT !.pc = next]
                         ELSE [Performed(r, "Milvus") EXCEPT
                                  !.vector_db = "Milvus", !.pc = next,
                                  !.stale = @ \ {"vector_db"}]]

\* Lines 203-208: the history and the chain of a RAG call are created.
query_memory(m) ==
    LET r == mgr[m]
    IN  /\ r.pc = "qry_memory"
        /\ UNCHANGED Store
        /\ mgr' = [mgr EXCEPT ![m] =
                     [r EXCEPT !.memory = NewMemory(r.memory), !.pc = "qry_search"]]

\* Lines 210-215: the retrieval of either query mode; it reads the collection
\* and writes nothing.  The chain of a RAG call then has the model answer and
\* saves the question and the answer as one turn of the history.
query_search(m) ==
    LET r == Performed(mgr[m], "search")
        t == [question |-> r.arg, answer |-> "answer"]
    IN  /\ mgr[m].pc = "qry_search"
        /\ UNCHANGED Store
        /\ mgr' = [mgr EXCEPT ![m] =
                     IF exists /\ cdim # r.config.dim
                     THEN Raise(r, "DimensionMismatch")
                     ELSE Return([r EXCEPT !.matches = Matches(rows),
                                           !.memory = IF r.use_rag THEN Append(@, t)
                                                      ELSE @])]

\* ------------------------------------------------- get_collection_stats
\* Lines 227-228.
stats_bind(m) ==
    /\ mgr[m].pc = "st_bind"
    /\ BindCollection(m, "st_call")

\* Lines 230-233: the statistics are requested through the handle and the row
\* count is printed.
stats_call(m) ==
    LET r == Performed(mgr[m], "get_stats")
    IN  /\ mgr[m].pc = "st_call"
        /\ UNCHANGED Store
        /\ mgr' = [mgr EXCEPT ![m] =
                     IF exists THEN Return([r EXCEPT !.row_count = Cardinality(rows)])
                     ELSE Raise(r, "CollectionNotFound")]

\* ------------------------------------ _create_collection_if_not_exists
\* Faulty variant: an absent collection is created.
EnsureCreatesWhenAbsent(has) == ~has
\* Lines 76-77: when the collection is absent a message is printed and
\* nothing is created.
EnsureCreates(has) == FALSE

\* Lines 76-79: utility.has_collection and the branch on it.
ensure_has(m) ==
    LET r == Performed(mgr[m], "has_collection")
    IN  /\ mgr[m].pc = "ens_has"
        /\ exists' = (exists \/ EnsureCreates(exists))
        /\ UNCHANGED <<cdim, rows, nextPk>>
        /\ mgr' = [mgr EXCEPT ![m] =
                     IF exists THEN [r EXCEPT !.pc = "ens_bind"] ELSE Return(r)]

\* Line 80: self.collection = Collection(name) for the collection found.
ensure_bind(m) ==
    LET r == Performed(mgr[m], "Collection")
    IN  /\ mgr[m].pc = "ens_bind"
        /\ UNCHANGED Store
        /\ mgr' = [mgr EXCEPT ![m] =
                     IF exists THEN Return([r EXCEPT !.collection = "Collection",
                                                     !.stale = @ \ {"collection"}])
                     ELSE Raise(r, "SchemaNotReady")]

\* ------------------------------------------------- database failures
\* The database call an operation is about to make, "none" when its next
\* step makes no call.
PendingCall(r) ==
    CASE r.pc \in {"chk_bind", "del_bind", "st_bind"} ->
             IF r.collection = "None" THEN "Collection" ELSE "none"
      [] r.pc \in {"load_bind", "ens_bind"} -> "Collection"
      [] r.pc = "st_call"    -> "get_stats"
      [] r.pc = "ens_has"    -> "has_collection"
      [] r.pc = "chk_query"  -> "lookup"
      [] r.pc = "del_query"  -> "query"
      [] r.pc = "del_loop"   -> "delete"
      [] r.pc \in {"insert", "load_insert"} ->
             IF LoadError(r.config.file_type, r.arg) = "none" THEN "insert" ELSE "none"
      [] r.pc = "drop_has"   -> "has_collection"
      [] r.pc = "drop_do"    -> "drop_collection"
      [] r.pc = "qry_bind"   -> IF r.vector_db = "None" THEN "Milvus" ELSE "none"
      [] r.pc = "qry_search" -> "search"
      [] OTHER -> "none"

\* Line 321: any database (or model) call may raise; nothing is caught before
\* main, so the operation ends there with what it has done so far.
UpstreamFailure(m) ==
    /\ PendingCall(mgr[m]) # "none"
    /\ mgr' = [mgr EXCEPT ![m] =
                 Raise(Performed(mgr[m], PendingCall(mgr[m])), "UpstreamError")]
    /\ UNCHANGED Store

\* ------------------------------------------------- specification
DispatchStep(m) ==
    \/ insert_documents(m)
    \/ delete_bind(m)
    \/ delete_query(m)
    \/ delete_call(m)
    \/ check_bind(m)
    \/ check_query(m)
    \/ drop_has(m)
    \/ drop_do(m)
    \/ load_insert(m)
    \/ load_bind(m)
    \/ query_bind(m)
    \/ query_memory(m)
    \/ query_search(m)
    \/ UpstreamFailure(m)

StatsStep(m) ==
    \/ stats_bind(m)
    \/ stats_call(m)

EnsureStep(m) ==
    \/ ensure_has(m)
    \/ ensure_bind(m)

Step(m) ==
    \/ DispatchStep(m)
    \/ StatsStep(m)
    \/ EnsureStep(m)

\* Lines 282-315: main dispatches one of the operations.
InvokeAny(m) ==
    /\ \E o \in Operations : \E a \in ArgsOf(o) : \E rag \in BOOLEAN :
         /\ (rag => o = "query")
         /\ Invoke(m, o, a, rag)

\* Lines 225-233, 73-81: the manager's methods outside the dispatcher.
InvokeMethod(m) ==
    \E o \in {"stats", "ensure"} : Invoke(m, o, "none", FALSE)

\* Section 5 of the design: command-at-a-time execution.  One process after
\* the other (Construct starts the next one) runs one operation at a time.
Next ==
    \/ \E m \in SeqProcs : InvokeAny(m)
    \/ \E m \in SeqProcs : InvokeMethod(m)
    \/ \E m \in SeqProcs : Construct(m)
    \/ \E m \in SeqProcs : Step(m)

Spec == Init /\ [][Next]_vars

\* ------------------------------------------------- the command line (main)
\* What --file-path and --query can be: a value, or "absent" (not given, or
\* empty).
FilePathArgs == FilePaths \cup {"docs/b.pdf", "absent"}
QueryArgs == {"q", "absent"}

\* The outcomes of MilvusRAGManager(args.config), line 280: the configuration
\* loads and the connection is made, or one of them raises.
Startups == {"ok", "ConfigError", "UpstreamError"}

\* Faulty variant: no flag is required.
MissingFlagNever(o, file_path, query) == FALSE
\* Lines 283, 289, 295, 301, 312: the flag the operation requires is missing.
MissingFlag(o, file_path, query) ==
    \/ o \in {"insert", "update", "delete", "load"} /\ file_path = "absent"
    \/ o = "query" /\ query = "absent"

\* Lines 321-323 and the end of main: the exit status after the try block.
ExitStatus(result) == IF result = "ok" THEN 0 ELSE 1

\* A process that has printed its error and exited with status 1.
Failed(r, e) == [r EXCEPT !.pc = "exited", !.exit = 1, !.err = e,
                          !.result = "error", !.error_printed = TRUE]

\* Lines 268-315: a new process parses its arguments (argparse exits with
\* status 2 when they are invalid), constructs its manager, checks the flag
\* its operation requires and calls the operation.
main_start(m) ==
    /\ mgr[m].pc \in {"idle", "exited"}
    /\ UNCHANGED Store
    /\ \/ mgr' = [mgr EXCEPT ![m] =
                    [NewManager("pdf", 1) EXCEPT !.pc = "exited", !.exit = 2]]
       \/ \E o \in Operations, file_path \in FilePathArgs, query \in QueryArgs,
             rag \in BOOLEAN, startup \in Startups, ft \in FileTypes, d \in Dims :
            LET a == CASE o = "query" -> query
                       [] o = "drop"  -> "none"
                       [] OTHER       -> file_path
                r == [NewManager(ft, d) EXCEPT !.op = o, !.arg = a, !.use_rag = rag,
                                               !.pre = Snapshot(NewManager(ft, d))]
            IN  /\ o = "query" \/ (query = "absent" /\ ~rag)
                /\ o \in {"query", "drop"} => file_path = "absent"
                /\ startup # "ok" => (ft = "pdf" /\ d = 1)
                /\ o \in InsertingOps => PkRoom(m)
                /\ mgr' = [mgr EXCEPT ![m] =
                             IF startup # "ok" THEN Failed(r, startup)
                             ELSE IF MissingFlag(o, file_path, query)
                                  THEN Failed(r, "MissingFlag")
                                  ELSE [r EXCEPT !.pc = FirstPc(o)]]

\* Lines 317-319: after an operation other than drop has returned,
\* get_collection_stats is called.
main_stats(m) ==
    LET r == mgr[m]
    IN  /\ r.pc = "done" /\ r.stage = "op"
        /\ r.result = "ok" /\ r.op # "drop"
        /\ UNCHANGED Store
        /\ mgr' = [mgr EXCEPT ![m] =
                     [r EXCEPT !.stage = "stats", !.pc = "st_bind", !.result = "none"]]

\* Lines 321-323: an exception that reached main is printed and the process
\* exits with status 1; otherwise main returns and the status is 0.
main_exit(m) ==
    LET r == mgr[m]
    IN  /\ r.pc = "done"
        /\ r.result = "error" \/ r.op = "drop" \/ r.stage = "stats"
        /\ UNCHANGED Store
        /\ mgr' = [mgr EXCEPT ![m] =
                     [r EXCEPT !.pc = "exited", !.exit = ExitStatus(r.result),
                               !.error_printed = (r.result = "error")]]

\* One process after the other runs main.
CliNext ==
    \/ \E m \in SeqProcs : main_start(m)
    \/ \E m \in SeqProcs : DispatchStep(m)
    \/ \E m \in SeqProcs : StatsStep(m)
    \/ \E m \in SeqProcs : main_stats(m)
    \/ \E m \in SeqProcs : main_exit(m)

CliSpec == Init /\ [][CliNext]_vars

\* ===================================================================
\* Properties
\* ===================================================================
Count(rs, src) == Cardinality(WithSource(rs, src))
Pks(rs) == {r.pk : r \in rs}
Done(r, o) == r.pc = "done" /\ r.op = o
Ok(r, o) == Done(r, o) /\ r.result = "ok"
\* The steps of an operation that are calls on the collection's content.
Calls(r) == SelectSeq(r.trace, LAMBDA c : c # "Collection")
Occurrences(t, c) == Cardinality({k \in 1..Len(t) : t[k] = c})
\* The operation ended in the error of a deletion call of its delete loop.
DeleteLoopFailure(r) ==
    /\ r.result = "error"
    /\ r.trace # <<>>
    /\ r.trace[Len(r.trace)] = "delete"
StoreAsInvoked(r) ==
    /\ exists = r.pre.exists
    /\ cdim = r.pre.cdim
    /\ rows = r.pre.rows

\* The fields of every manager and of the database stay in their domains;
\* every entry has the collection's dimensionality and a key already handed out.
TypeOK ==
    /\ exists \in BOOLEAN
    /\ cdim \in Dims \cup {0}
    /\ exists <=> cdim # 0
    /\ ~exists => rows = {}
    /\ nextPk \in 1..(MaxPk + 1)
    /\ \A r \in rows : r.pk \in 1..(nextPk - 1) /\ r.dim = cdim
    /\ \A r1, r2 \in rows : r1.pk = r2.pk => r1 = r2
    /\ \A m \in Procs :
         /\ mgr[m].collection \in {"None", "Collection"}
         /\ mgr[m].vector_db \in {"None", "Milvus"}
         /\ mgr[m].result \in {"none", "ok", "error"}
         /\ mgr[m].pc = "done" => mgr[m].result # "none"
         /\ mgr[m].result # "none" => mgr[m].pc \in {"done", "exited"}
         /\ mgr[m].exit \in {-1, 0, 1, 2}
         /\ (mgr[m].pc = "exited") <=> (mgr[m].exit # -1)
         /\ mgr[m].stale \subseteq {"collection", "vector_db"}
         /\ mgr[m].row_count \in -1..MaxPk

\* C1: after an update(f) that returns without error, for a path f that had
\* entries when update was invoked, the entries with source f are exactly
\* those of this update's load: their number is the load's chunk count, not
\* that count plus the number f had before.
C1_UpdateReplaces ==
    \A m \in Procs :
        LET r == mgr[m]
        IN  (Ok(r, "update") /\ WithSource(r.pre.rows, r.arg) # {})
            => /\ Count(rows, r.arg) = r.loaded
               /\ Pks(WithSource(rows, r.arg)) = r.added
               /\ WithSource(rows, r.arg) \cap r.pre.rows = {}

C1_Witness ==
    \E m \in Procs :
        LET r == mgr[m]
        IN  /\ Ok(r, "update")
            /\ WithSource(r.pre.rows, r.arg) # {}
            /\ Count(rows, r.arg) = r.loaded
            /\ r.loaded = 2

\* C2: an operation that ends in NotFoundError or UnsupportedTypeError (errors
\* that are no delete-loop failure) leaves the collection's existence and
\* its entries as they were when it was invoked.
C2_FailedOperationsFailEntirely ==
    \A m \in Procs :
        LET r == mgr[m]
        IN  ( /\ r.pc = "done"
              /\ r.result = "error"
              /\ ~DeleteLoopFailure(r)
              /\ r.err \in {"NotFoundError", "UnsupportedTypeError"} )
            => (exists = r.pre.exists /\ rows = r.pre.rows)

\* C3: from every state of the database, an update whose database calls all
\* answer performs the lookup first, the deletion calls only when the lookup
\* found entries, and the insert step last and always.
C3_UpdateOrder ==
    \A m \in Procs :
        LET r == mgr[m]
            t == Calls(r)
        IN  (Done(r, "update") /\ r.err # "UpstreamError")
            => /\ Len(t) >= 2
               /\ t[1] = "lookup"
               /\ t[Len(t)] = "insert"
               /\ \A k \in 2..(Len(t) - 1) : t[k] \in {"query", "delete"}
               /\ Occurrences(t, "delete") = Count(r.pre.rows, r.arg)

\* C4: a delete for a path no entry has as its source, whose database calls
\* all answer, returns without error, reports zero deletions, issues no
\* deletion call and leaves the collection unchanged.
C4_DeleteAbsentSource ==
    \A m \in Procs :
        LET r == mgr[m]
        IN  ( /\ Done(r, "delete")
              /\ WithSource(r.pre.rows, r.arg) = {}
              /\ r.err # "UpstreamError" )
            => /\ r.result = "ok"
               /\ r.reported = 0
               /\ Occurrences(r.trace, "delete") = 0
               /\ StoreAsInvoked(r)

\* C5: an insert that returns without error, its load having produced C
\* chunks, added exactly C entries under keys never used before and left
\* every earlier entry as it was: the row count grew by C, the count of every
\* source of the load grew by its chunks, and a second insert of the same file
\* with the same C right after a first one into no earlier entries leaves 2C.
C5_InsertAddsExactly ==
    \A m \in Procs :
        LET r == mgr[m]
            new == rows \ r.pre.rows
        IN  Ok(r, "insert")
            => /\ r.pre.rows \subseteq rows
               /\ Pks(new) = r.added
               /\ Cardinality(new) = r.loaded
               /\ Cardinality(rows) = Cardinality(r.pre.rows) + r.loaded
               /\ \A e \in new : /\ e.pk >= r.pre.nextPk
                                 /\ e.pk \notin Pks(r.pre.rows)
                                 /\ e.source \in ChunkSources(r.arg)
               /\ PathKind(r.arg) = "file"
                    => Count(rows, r.arg) = Count(r.pre.rows, r.arg) + r.loaded
               /\ ( /\ PathKind(r.arg) = "file"
                    /\ r.prev.op = "insert" /\ r.prev.arg = r.arg
                    /\ r.prev.before = 0 /\ r.prev.n = r.loaded )
                    => Count(rows, r.arg) = 2 * r.loaded

C5_Witness ==
    \E m \in Procs :
        LET r == mgr[m]
        IN  /\ Ok(r, "insert")
            /\ PathKind(r.arg) = "file"
            /\ r.prev.op = "insert" /\ r.prev.arg = r.arg
            /\ r.prev.before = 0 /\ r.prev.n = r.loaded
            /\ Count(rows, r.arg) = 2 * r.loaded

\* C6: a delete(f) that returns without error removed exactly the entries
\* whose source is f and reports their number, by which the row count went
\* down; right after an insert(f) of a file f with no earlier entries that
\* number is the insert's chunk count; a delete(f) right after a delete(f)
\* returns without error (its database calls answering) and reports zero.
C6_InsertDeleteRoundTrip ==
    \A m \in Procs :
        LET r == mgr[m]
        IN  /\ Ok(r, "delete")
               => /\ rows = r.pre.rows \ WithSource(r.pre.rows, r.arg)
                  /\ WithSource(rows, r.arg) = {}
                  /\ r.reported = Count(r.pre.rows, r.arg)
                  /\ Cardinality(rows) = Cardinality(r.pre.rows) - r.reported
                  /\ ( /\ PathKind(r.arg) = "file"
                       /\ r.prev.op = "insert" /\ r.prev.arg = r.arg
                       /\ r.prev.before = 0 )
                       => r.reported = r.prev.n
            /\ (Done(r, "delete") /\ r.prev.op = "delete" /\ r.prev.arg = r.arg
                   /\ r.err # "UpstreamError")
               => (r.result = "ok" /\ r.reported = 0 /\ StoreAsInvoked(r))

C6_Witness ==
    \E m \in Procs :
        LET r == mgr[m]
        IN  /\ Ok(r, "delete")
            /\ r.prev.op = "delete" /\ r.prev.arg = r.arg
            /\ r.prev.n = 2
            /\ r.reported = 0

\* C7: in a load the drop is over before the insert step begins (the
\* collection is absent when it begins and nothing was inserted before), and
\* after a load that returns without error the collection holds exactly the
\* chunks of this load, none of the entries it held before.
C7_LoadSequencing ==
    \A m \in Procs :
        LET r == mgr[m]
        IN  /\ (r.op = "load" /\ r.pc \in {"drop_has", "drop_do"})
               => (r.added = {} /\ Occurrences(r.trace, "insert") = 0)
            /\ (r.op = "load" /\ r.pc = "load_insert")
               => (~exists /\ rows = {} /\ r.added = {})
            /\ Ok(r, "load")
               => /\ exists
                  /\ Pks(rows) = r.added
                  /\ Cardinality(rows) = r.loaded
                  /\ rows \cap r.pre.rows = {}
                  /\ \A e \in rows : e.source \in ChunkSources(r.arg)

C7_Witness ==
    \E m \in Procs :
        LET r == mgr[m]
        IN  /\ Ok(r, "load")
            /\ r.pre.rows # {}
            /\ Pks(rows) = r.added
            /\ rows \cap r.pre.rows = {}

\* C8: a drop ends in an error only when a database call of it failed; a
\* drop that returns leaves the collection absent; and a drop right after a
\* drop issues no drop call and changes neither the database nor the
\* manager's two handles.
C8_DropIdempotent ==
    \A m \in Procs :
        LET r == mgr[m]
        IN  Done(r, "drop")
            => /\ r.result = "error" => r.err = "UpstreamError"
               /\ r.result = "ok" => (~exists /\ rows = {})
               /\ r.prev.op = "drop"
                    => /\ StoreAsInvoked(r)
                       /\ ~exists
                       /\ r.collection = r.pre.collection
                       /\ r.vector_db = r.pre.vector_db
                       /\ Occurrences(r.trace, "drop_collection") = 0

C8_Witness ==
    \E m \in Procs :
        LET r == mgr[m]
        IN  /\ Ok(r, "drop")
            /\ r.prev.op = "drop"
            /\ r.pre.vector_db = "None"
            /\ ~exists

\* C9: when the k-th deletion call of a delete that matched n entries fails,
\* exactly the k-1 entries deleted before it are gone, the other n-k+1 matched
\* entries and every other entry are still there, k deletion calls were
\* issued in all, and the delete ends in an error and reports no count.
C9_PartialDeletion ==
    \A m \in Procs :
        LET r == mgr[m]
            n == Len(r.res)
            k == r.idx
            gone == {r.res[j] : j \in 1..(k - 1)}
            left == {r.res[j] : j \in k..n}
        IN  (Done(r, "delete") /\ DeleteLoopFailure(r))
            => /\ 1 <= k /\ k <= n
               /\ n = Count(r.pre.rows, r.arg)
               /\ rows = {e \in r.pre.rows : e.pk \notin gone}
               /\ Cardinality(r.pre.rows) - Cardinality(rows) = k - 1
               /\ left \subseteq Pks(rows)
               /\ Count(rows, r.arg) = n - k + 1
               /\ Occurrences(r.trace, "delete") = k
               /\ r.result = "error"
               /\ r.reported = -1

C9_Witness ==
    \E m \in Procs :
        LET r == mgr[m]
        IN  /\ Done(r, "delete") /\ DeleteLoopFailure(r)
            /\ Len(r.res) = 3
            /\ r.idx = 2
            /\ Count(rows, r.arg) = 2

\* Entries of more than one dimensionality.
MixedDimensions(rs) == \E e1, e2 \in rs : e1.dim # e2.dim

\* C10: with a collection created under another dimensionality than the
\* manager's embedding model, a load of a loadable path whose database calls
\* all answer returns without error and leaves a collection of the model's
\* dimensionality holding only the chunks of this load; an insert in the same
\* state does not return without error unless it left mixed dimensionalities.
C10_LoadResetsSchema ==
    \A m \in Procs :
        LET r == mgr[m]
            drift == r.pre.exists /\ r.pre.cdim # r.config.dim
        IN  /\ ( /\ Done(r, "load") /\ drift
                 /\ r.err \notin {"UpstreamError", "NotFoundError", "UnsupportedTypeError"} )
               => /\ r.result = "ok"
                  /\ exists /\ cdim = r.config.dim
                  /\ \A e \in rows : e.dim = r.config.dim
                  /\ Pks(rows) = r.added
                  /\ rows # {}
            /\ (Done(r, "insert") /\ drift)
               => (r.result # "ok" \/ MixedDimensions(rows))

C10_Witness ==
    \E m \in Procs :
        LET r == mgr[m]
        IN  /\ Ok(r, "load")
            /\ r.pre.exists /\ r.pre.cdim # r.config.dim
            /\ cdim = r.config.dim
            /\ r.pre.rows # {}

\* C12: while and after an update whose delete step has finished (it reported
\* the deletions of at least one entry) and whose insert step has added
\* nothing, no entry has the update's path as its source: that is what a crash
\* or an error at the insert step leaves, and no later step of the update
\* brings a deleted entry back.
C12_UpdateNotAtomic ==
    \A m \in Procs :
        LET r == mgr[m]
        IN  (r.op = "update" /\ r.reported >= 1 /\ r.added = {})
            => /\ r.pc \in {"insert", "done"}
               /\ Count(rows, r.arg) = 0
               /\ rows = r.pre.rows \ WithSource(r.pre.rows, r.arg)
               /\ r.pc = "done" => r.result = "error"

C12_Witness ==
    \E m \in Procs :
        LET r == mgr[m]
        IN  /\ Done(r, "update") /\ r.result = "error"
            /\ r.reported >= 1 /\ r.added = {}
            /\ Count(r.pre.rows, r.arg) = r.reported
            /\ Count(rows, r.arg) = 0

\* ------------------------------------- inserts and deletes by path spelling
\* The spellings --file-path can take for the files on disk.
Spellings == {"a.pdf", "./a.pdf", "docs/b.pdf"}

\* insert_documents and delete_documents (lines 129-167) called on one
\* manager with any spelling of a path.
SpellingNext ==
    \E m \in SeqProcs :
        \/ \E o \in {"insert", "delete"}, a \in Spellings : Invoke(m, o, a, FALSE)
        \/ insert_documents(m)
        \/ delete_bind(m)
        \/ delete_query(m)
        \/ delete_call(m)
        \/ UpstreamFailure(m)

SpellingSpec == Init /\ [][SpellingNext]_vars

\* Entries of rs whose source string is not src.
OtherSources(rs, src) == {r \in rs : r.source # src}

\* C14: in every state of a delete(filePath), whether it is under way, has
\* succeeded, has found nothing or has failed partway, every entry whose source
\* string differs from filePath (another spelling of the same path included)
\* is present and unchanged, and no entry has appeared.
C14_DeleteFrame ==
    \A m \in Procs :
        LET r == mgr[m]
        IN  r.op = "delete"
            => /\ OtherSources(rows, r.arg) = OtherSources(r.pre.rows, r.arg)
               /\ rows \subseteq r.pre.rows

C14_Witness ==
    \E m \in Procs :
        LET r == mgr[m]
        IN  /\ Ok(r, "delete") /\ r.reported >= 1
            /\ Count(rows, r.arg) = 0
            /\ \E e \in rows : e.source # r.arg /\ RealPath(e.source) = RealPath(r.arg)

\* The steps at which a call is made through self.collection, and through
\* self.vector_db.
CollectionCallPcs == {"chk_query", "del_query", "del_loop", "st_call"}
VectorDbCallPcs == {"qry_search"}

\* C15: when delete, update's lookup, query or statistics is about to make a
\* database call through a handle, the manager holds that handle, it was bound
\* first thing in the operation if the manager held none when the operation
\* was invoked, and it was not acquired before the manager's most recent drop;
\* and after the manager's drop of an existing collection both handles are
\* None.
C15_HandleBinding ==
    \A m \in Procs :
        LET r == mgr[m]
        IN  /\ r.pc \in CollectionCallPcs
               => /\ r.collection = "Collection"
                  /\ "collection" \notin r.stale
                  /\ r.pre.collection = "None"
                     => (r.trace # <<>> /\ r.trace[1] = "Collection")
            /\ r.pc \in VectorDbCallPcs
               => /\ r.vector_db = "Milvus"
                  /\ "vector_db" \notin r.stale
                  /\ r.pre.vector_db = "None"
                     => (r.trace # <<>> /\ r.trace[1] = "Milvus")
            /\ (Ok(r, "drop") /\ r.pre.exists)
               => (r.collection = "None" /\ r.vector_db = "None")
            /\ r.stale = {}

\* A manager that held both handles dropped the existing collection: it holds
\* neither now, so its next operation binds anew.
C15_Witness ==
    \E m \in Procs :
        LET r == mgr[m]
        IN  /\ Ok(r, "drop")
            /\ r.pre.exists /\ r.pre.rows # {}
            /\ r.pre.collection = "Collection" /\ r.pre.vector_db = "Milvus"
            /\ r.collection = "None" /\ r.vector_db = "None"
            /\ ~exists

MutatingCalls == {"insert", "delete", "drop_collection"}

\* The process ran its operation to the end without an error, and (unless
\* the operation is drop) get_collection_stats after it as well.
CompletedAll(r) ==
    /\ r.err = "none"
    /\ r.op \in Operations
    /\ r.trace # <<>>
    /\ r.op # "drop" => (r.stage = "stats" /\ r.row_count >= 0)

\* The process was started without the flag its operation takes.
FlagNotGiven(r) == r.op \in Operations \ {"drop"} /\ r.arg = "absent"

\* C11: a process that has exited did so with status 0 exactly when its
\* operation and the statistics step after it completed without error; with
\* status 1, after printing an error, when a required flag was missing, the
\* configuration did not load, the file type was unsupported, the path was not
\* found or a database or model call raised; and a process whose required flag
\* was missing issued no call that changes the collection.
C11_ExitStatus ==
    \A m \in Procs :
        LET r == mgr[m]
        IN  r.pc = "exited"
            => /\ (r.exit = 0) <=> CompletedAll(r)
               /\ r.err \in {"MissingFlag", "ConfigError", "UnsupportedTypeError",
                             "NotFoundError", "UpstreamError", "SchemaNotReady",
                             "CollectionNotFound", "DimensionMismatch"}
                  => (r.exit = 1 /\ r.error_printed)
               /\ r.exit = 1 => (r.error_printed /\ r.err # "none")
               /\ FlagNotGiven(r)
                  => /\ r.exit = 1
                     /\ \A k \in 1..Len(r.trace) : r.trace[k] \notin MutatingCalls
                     /\ StoreAsInvoked(r)

\* A delete without --file-path on a populated collection exited with status 1
\* and the collection is as it was.
C11_Witness ==
    \E m \in Procs :
        LET r == mgr[m]
        IN  /\ r.pc = "exited" /\ r.exit = 1 /\ r.error_printed
            /\ r.op = "delete" /\ r.arg = "absent"
            /\ r.err = "MissingFlag"
            /\ rows # {} /\ rows = r.pre.rows

\* C16: a process whose operation is insert, update, delete, query or load and
\* whose operation step returned without error has, when it exits, requested
\* the collection statistics exactly once, after the operation's last step,
\* and printed the row count; a drop process never requests them.  (A failure
\* of the database while it answers the statistics call is left aside.)
C16_StatsAfterOperation ==
    \A m \in Procs :
        LET r == mgr[m]
        IN  /\ (r.pc = "exited" /\ r.op \in Operations \ {"drop"}
                  /\ r.stage = "stats" /\ r.err # "UpstreamError")
               => /\ Occurrences(r.trace, "get_stats") = 1
                  /\ r.trace[Len(r.trace)] = "get_stats"
                  /\ r.row_count = Cardinality(rows)
            /\ r.op = "drop" => Occurrences(r.trace, "get_stats") = 0

\* ------------------------------------------------- queries on a stored collection

\* The entries of a collection that holds n chunks of a.pdf.
StoredEntries(n) ==
    { [pk |-> k, source |-> "a.pdf", start_index |-> k, dim |-> 1] : k \in 1..n }

\* Lines 192-215: query_documents is called, by one process after the other,
\* on a collection that is absent, empty or holds up to MaxEntries entries.
QueryInit ==
    /\ \E n \in 0..MaxEntries :
         /\ rows = StoredEntries(n)
         /\ nextPk = n + 1
         /\ exists \in BOOLEAN
         /\ n > 0 => exists
    /\ cdim = IF exists THEN 1 ELSE 0
    /\ mgr = [p \in Procs |-> NewManager("pdf", 1)]

QueryNext ==
    \E m \in SeqProcs :
        \/ \E rag \in BOOLEAN : Invoke(m, "query", "q", rag)
        \/ Construct(m)
        \/ query_bind(m)
        \/ query_memory(m)
        \/ query_search(m)
        \/ UpstreamFailure(m)

QuerySpec == QueryInit /\ [][QueryNext]_vars

\* C18: a similarity search that returned gave min(K, number of entries)
\* matches with K = 10, none (and no error) when the collection has no entries,
\* and a query of either mode leaves every entry as it was.
C18_SearchResultBound ==
    \A m \in Procs :
        LET r == mgr[m]
            n == Cardinality(rows)
        IN  /\ (Ok(r, "query") /\ ~r.use_rag)
               => r.matches = IF n < SearchLimit THEN n ELSE SearchLimit
            /\ r.op = "query" => StoreAsInvoked(r)
            /\ (Done(r, "query") /\ rows = {}
                  /\ r.err \notin {"UpstreamError", "DimensionMismatch"})
               => (r.result = "ok" /\ r.matches = 0)

\* The one turn a RAG call for question q saves.
Turn(q) == [question |-> q, answer |-> "answer"]

\* C19: the history of a RAG call is empty when the call reaches its chain and
\* holds exactly the call's own turn when the call has returned, whatever the
\* calls before it saved; a step changes a history only by creating it empty,
\* by appending one turn to it, or by starting a new process, which has none.
C19_HistoryScope ==
    /\ [](\A m \in Procs :
            LET r == mgr[m]
            IN  (r.op = "query" /\ r.use_rag)
                => /\ r.pc = "qry_search" => r.memory = <<>>
                   /\ Ok(r, "query") => r.memory = <<Turn(r.arg)>>)
    /\ [][\A m \in Procs :
            mgr'[m].memory # mgr[m].memory
            => \/ mgr[m].pc = "qry_memory" /\ mgr'[m].memory = <<>>
               \/ /\ mgr[m].pc = "qry_search" /\ mgr[m].use_rag
                  /\ mgr'[m].memory = Append(mgr[m].memory, Turn(mgr[m].arg))
               \/ mgr'[m].pc = "idle" /\ mgr'[m].memory = <<>>]_vars

\* A RAG call returned on a manager whose call before had saved a turn: the
\* history holds one turn.
C19_Witness ==
    \E m \in Procs :
        LET r == mgr[m]
        IN  /\ Ok(r, "query") /\ r.use_rag
            /\ r.pre.memory # <<>>
            /\ Len(r.memory) = 1
            /\ rows # {}

\* ------------------------------------------------- concurrent invocations
\* Section "Concurrency" of the design: nothing in the manager (lines 129-265)
\* takes a lock, so two processes call the operations on the same collection
\* and their database calls interleave freely.
ConcurrentOps == {"insert", "update", "delete", "load"}

\* A process invokes an operation on a.pdf while the other may be running one;
\* an operation that inserts starts while a primary key is left.
InvokeConcurrent(m) ==
    \E o \in ConcurrentOps :
        /\ ~Running(m)
        /\ o \in InsertingOps => nextPk <= MaxPk
        /\ Begin(m, o, "a.pdf", FALSE, NoPrev)

\* The steps of the operations, none of them failing.
ConcurrentStep(m) ==
    \/ insert_documents(m)
    \/ delete_bind(m)
    \/ delete_query(m)
    \/ delete_call(m)
    \/ check_bind(m)
    \/ check_query(m)
    \/ drop_has(m)
    \/ drop_do(m)
    \/ load_insert(m)
    \/ load_bind(m)

ConcNext ==
    \/ \E m \in Procs : InvokeConcurrent(m)
    \/ \E m \in Procs : ConcurrentStep(m)

ConcSpec == Init /\ [][ConcNext]_vars

\* The step an invocation at an insert step takes needs a primary key.
KeysLeft(r) == r.pc \in {"insert", "load_insert"} => nextPk <= MaxPk

\* C13: no invocation ever waits for another: whatever the other process is
\* doing, a running invocation can take its next step.  So when two update(f)
\* have both returned without error, the entries with source f are those of
\* one of the updates or of both together (then their number is the sum of the
\* two chunk counts).  C13_LoadWithEarlierEntries below is the state the
\* claim's last sentence describes.
C13_NoMutualExclusion ==
    /\ \A m \in Procs :
          (Running(m) /\ KeysLeft(mgr[m])) => ENABLED ConcurrentStep(m)
    /\ \A m, q \in Procs :
          LET r == mgr[m]
              o == mgr[q]
              now == Pks(WithSource(rows, r.arg))
          IN  (m # q /\ Ok(r, "update") /\ Ok(o, "update") /\ r.arg = o.arg)
              => /\ now \in {r.added, o.added, r.added \cup o.added}
                 /\ r.added \cap o.added = {}
                 /\ now = r.added \cup o.added
                    => Count(rows, r.arg) = r.loaded + o.loaded

\* Two update(a.pdf) that both found and deleted the entry a.pdf had, each
\* loading one chunk, have both returned without error and a.pdf has two
\* entries.
C13_Witness ==
    \E m, q \in Procs :
        LET r == mgr[m]
            o == mgr[q]
        IN  /\ m # q
            /\ Ok(r, "update") /\ Ok(o, "update") /\ r.arg = o.arg
            /\ r.reported >= 1 /\ o.reported >= 1
            /\ r.loaded = o.loaded
            /\ Count(rows, r.arg) = 2 * r.loaded

\* A load has returned without error and the collection holds an entry that
\* predates the load's insert: the other process inserted it after the load's
\* drop.
C13_LoadWithEarlierEntries ==
    \E m, q \in Procs :
        LET r == mgr[m]
            o == mgr[q]
        IN  /\ m # q
            /\ Ok(r, "load") /\ "drop_collection" \in Range(r.trace)
            /\ Ok(o, "insert")
            /\ \E e \in rows : e.pk \in o.added /\ \A k \in r.added : e.pk < k
            /\ r.added \subseteq Pks(rows)

\* C20: a step of the delete loop of delete(f) removes at most the entry whose
\* primary key is the next one of the list its lookup returned, and unless the
\* call fails moves on by one key; when the delete returns without error it has made one lookup and
\* one deletion call per key of that list, and reports their number.  Entries
\* with source f that were inserted after the lookup are not in the list, so no
\* step of this delete removes them.
C20_DeleteWorksOnSnapshot ==
    [][\A m \in Procs :
          LET r == mgr[m]
              n == mgr'[m]
          IN  /\ (r.pc = "del_loop" /\ n # r)
                 => /\ r.idx \in 1..Len(r.res)
                    /\ rows \ rows' \subseteq {e \in rows : e.pk = r.res[r.idx]}
                    /\ rows' \subseteq rows
                    /\ n.res = r.res
                    /\ n.result # "error" => n.idx = r.idx + 1
              /\ (r.pc = "del_query" /\ n # r)
                 => /\ rows' = rows
                    /\ n.result # "error"
                       => Range(n.res) = Pks(WithSource(rows, r.arg))
              /\ (r.op \in {"delete", "update"} /\ r.pc # "done" /\ n.pc = "done"
                    /\ n.result = "ok" /\ n.reported >= 0)
                 => /\ n.reported = Len(n.res)
                    /\ Occurrences(n.trace, "delete") = Len(n.res)
                    /\ Occurrences(n.trace, "query") = 1
      ]_vars

\* A delete(a.pdf) has reported the deletion of the entries its lookup found
\* and returned without error, while entries with source a.pdf that the other
\* process inserted after that lookup remain.
C20_Witness ==
    \E m, q \in Procs :
        LET r == mgr[m]
            o == mgr[q]
        IN  /\ m # q
            /\ Ok(r, "delete") /\ r.reported >= 1
            /\ Ok(o, "insert") /\ o.arg = r.arg
            /\ o.added # {} /\ o.added \subseteq Pks(WithSource(rows, r.arg))
            /\ o.added \cap Range(r.res) = {}
            /\ Pks(WithSource(rows, r.arg)) = o.added

=============================================================================
